---- MODULE Spec2Model ----
(***************************************************************************)
(* Multi-account token management and aggregation layer of the TradeLog    *)
(* backend: the credential store (table user_plaid_tokens), the            *)
(* link-token and exchange-public-token routes, the holdings /             *)
(* transactions fan-out and the deprecated paths of server-secure.js, the  *)
(* data routes of the legacy server.js, and the startup of both servers.   *)
(*                                                                         *)
(* Every request handler is split at its awaits: one action per            *)
(* continuation.  Requests live in slots; two slots are in flight at most, *)
(* which gives every pairwise interleaving of handlers.                    *)
(***************************************************************************)
EXTENDS Integers, Sequences, FiniteSets, TLC

\* ------------------------------------------------------------------ bounds
\* Items (institutions) a user can link: 1..NumItems.
NumItems == 2
\* Access tokens the provider issues in one run (successful exchanges).
MaxTokens == 2

Users == {"u1", "u2"}
Slots == {"r1", "r2"}
\* Link-token, holdings and transactions requests write nothing and cannot
\* affect one another: one slot takes them.  Both slots take exchange requests.
FanSlots == {"r1"}
Items == 1..NumItems
\* The server never reads or writes is_active, so deactivation from outside it
\* is exercised on the credentials of one item.
Deactivable == {1}

\* The two servers of the repository.
Secure == "server-secure.js"
Legacy == "server.js"

\* const requiredEnvVars = [...] of server-secure.js.
requiredEnvVars ==
  {"PLAID_CLIENT_ID", "PLAID_SECRET", "SUPABASE_URL", "SUPABASE_SERVICE_ROLE_KEY", "JWT_SECRET"}

\* ------------------------------------------------------------ plain values
NoUser == "nobody"
\* JS null: what the per-call wrapper returns for a failed provider call.
Null == [tag |-> "null"]
\* A slot of Promise.all's value array that no promise has filled yet.
Hole == [tag |-> "hole"]
\* SQL NULL of a TIMESTAMPTZ column (last_used_at has no default).
NoTime == 0
NoToken == [item |-> 0, serial |-> 0]
\* SQL NULL of item_id.
NoItem == 0

\* ---------------------------------------------------------------- helpers
\* All orderings of a finite set, as sequences without repetition.
Perms(S) ==
  {p \in [1..Cardinality(S) -> S] : \A i, j \in 1..Cardinality(S) : i # j => p[i] # p[j]}

\* -------------------------------------------------------- provider (Plaid)
\* The provider is an external capability.  Its data for an item is fixed per
\* item; the lengths differ per item and the security ids of different items
\* overlap, so merged collections can hold duplicates.
NumHoldings(item) == IF item = 1 THEN 3 ELSE IF item = 2 THEN 2 ELSE 1
NumTransactions(item) == item

PlaidAccounts(item) == <<[account_id |-> item]>>
PlaidHoldings(item) ==
  [k \in 1..NumHoldings(item) |-> [account_id |-> item, security_id |-> k]]
PlaidSecurities(item) ==
  [k \in 1..NumHoldings(item) |-> [security_id |-> k]]
PlaidTransactions(item) ==
  [k \in 1..NumTransactions(item) |-> [account_id |-> item, investment_transaction_id |-> k]]

\* response.data of plaidClient.investmentsHoldingsGet for an access token.
HoldingsData(access_token) ==
  [tag |-> "response",
   accounts |-> PlaidAccounts(access_token.item),
   items |-> PlaidHoldings(access_token.item),
   securities |-> PlaidSecurities(access_token.item)]

\* response.data of plaidClient.investmentsTransactionsGet for an access token.
TransactionsData(access_token) ==
  [tag |-> "response",
   accounts |-> PlaidAccounts(access_token.item),
   items |-> PlaidTransactions(access_token.item),
   securities |-> PlaidSecurities(access_token.item)]

ProviderData(k, access_token) ==
  IF k = "holdings" THEN HoldingsData(access_token) ELSE TransactionsData(access_token)

\* ------------------------------------------------------- request inputs
\* The Authorization header, reduced to what authenticateToken distinguishes:
\* no bearer token, a token jwt.verify rejects, or a token that verifies and
\* decodes to a userId (of a profile, or of a user the directory lost).
Bearers(senders) == {"missing", "garbage", "deleted"} \cup senders
\* The profiles table (the user directory); the core never mutates it.
Profiles == Users

\* Strings the model looks into are sequences of characters.
Digits == {"0", "1", "2", "3", "4", "5", "6", "7", "8", "9"}
ValidDate == <<"2", "0", "2", "4", "-", "0", "1", "-", "0", "1">>
OddDate == <<"2", "0", "2", "4", "-", "1", "3", "-", "4", "0">>
SlashDate == <<"0", "1", "/", "0", "2", "/", "2", "0", "2", "4">>
\* Request bodies of POST /api/plaid/investments/transactions.
DateRanges ==
  {[start_date |-> ValidDate, end_date |-> ValidDate],
   [start_date |-> OddDate, end_date |-> ValidDate],
   [start_date |-> SlashDate, end_date |-> ValidDate],
   [start_date |-> ValidDate, end_date |-> <<>>]}

\* public_token of POST /api/plaid/exchange-public-token: the empty string, or
\* the public token Link handed out for an item.
PublicTokens == {<<>>} \cup {<<i>> : i \in Items}

\* A JSON value of a request body whose type the server looks at.
Undefined == [type |-> "undefined", value |-> ""]
String(v) == [type |-> "string", value |-> v]
Number(v) == [type |-> "number", value |-> v]
\* access_tokens of a legacy request body: an array, or no array at all.
Array(v) == [type |-> "array", value |-> v]
NotAnArray == [type |-> "undefined", value |-> <<>>]

\* user_id of POST /api/plaid/create-link-token: absent, the id of a user (the
\* sender's or another's), or a number.
UserIdValues == {Undefined, Number("42")} \cup {String(u) : u \in Users}

HttpsUrl == <<"h", "t", "t", "p", "s", ":", "/", "/", "a", ".", "c", "o">>
\* 'tradelog://plaid-success'
AppUrl ==
  <<"t", "r", "a", "d", "e", "l", "o", "g", ":", "/", "/",
    "p", "l", "a", "i", "d", "-", "s", "u", "c", "c", "e", "s", "s">>
\* redirect_uri of POST /api/plaid/create-link-token: absent, a web URL, or a
\* URI of the app's own scheme.
RedirectUris == {<<>>, HttpsUrl, AppUrl}

\* ------------------------------------------------------------- responses
NoRes == [status |-> 0, error |-> ""]
ErrorRes(status, error) == [status |-> status, error |-> error]

\* ------------------------------------------------------------ middleware
\* authenticateToken: 401 unless the bearer token verifies and its userId is a
\* profile; on success req.user.id is that profile's id.
authenticateToken(bearer) ==
  IF bearer = "missing"
    THEN [ok |-> FALSE, res |-> ErrorRes(401, "AUTHENTICATION_REQUIRED"), user |-> NoUser]
  ELSE IF bearer = "garbage"
    THEN [ok |-> FALSE, res |-> ErrorRes(401, "TOKEN_VERIFICATION_FAILED"), user |-> NoUser]
  ELSE IF bearer \notin Profiles
    THEN [ok |-> FALSE, res |-> ErrorRes(401, "INVALID_TOKEN"), user |-> NoUser]
  ELSE [ok |-> TRUE, res |-> NoRes, user |-> bearer]

\* body(..).matches(/^\d{4}-\d{2}-\d{2}$/)
MatchesDate(s) ==
  /\ Len(s) = 10
  /\ \A i \in {1, 2, 3, 4, 6, 7, 9, 10} : s[i] \in Digits
  /\ s[5] = "-"
  /\ s[8] = "-"

\* Variant: only start_date is validated.
validateStartDate(b) == MatchesDate(b.start_date)

\* The validators of the transactions route, then validateErrors.
validateDates(b) == MatchesDate(b.start_date) /\ MatchesDate(b.end_date)

StartsWith(s, prefix) == Len(s) >= Len(prefix) /\ SubSeq(s, 1, Len(prefix)) = prefix

\* isString() of express-validator.
isString(v) == v.type = "string"

\* isURL() of express-validator with its default options, as far as it tells
\* the redirect URIs apart: the protocol is http, https or ftp, and the host
\* has a top-level domain.
isURL(s) ==
  \E protocol \in {<<"h", "t", "t", "p">>, <<"h", "t", "t", "p", "s">>, <<"f", "t", "p">>} :
    /\ StartsWith(s, protocol \o <<":", "/", "/">>)
    /\ \E i \in (Len(protocol) + 5)..(Len(s) - 1) : s[i] = "."

\* body('user_id').optional().isString(), body('redirect_uri').optional().isURL(),
\* then validateErrors.
validateLinkToken(b) ==
  /\ b.user_id # Undefined => isString(b.user_id)
  /\ b.redirect_uri # <<>> => isURL(b.redirect_uri)

\* body('public_token').notEmpty(), then validateErrors.
validatePublicToken(public_token) == Len(public_token) > 0

\* ------------------------------------------------------ credential store
\* A row of user_plaid_tokens (institution_id / institution_name are never
\* written by the server and stay NULL; they are left out).
Row(id, user_id, access_token, item_id, created_at, updated_at, last_used_at, is_active) ==
  [id |-> id, user_id |-> user_id, access_token |-> access_token, item_id |-> item_id,
   created_at |-> created_at, updated_at |-> updated_at,
   last_used_at |-> last_used_at, is_active |-> is_active]

Conflicts(table, user_id, item_id) ==
  {row \in table : row.user_id = user_id /\ row.item_id = item_id}

\* Variant: a plain insert into a table without the UNIQUE constraint.
UpsertInsertOnly(table, payload, id, dbNow) ==
  table \cup {Row(id, payload.user_id, payload.access_token, payload.item_id,
                  payload.created_at, payload.updated_at, NoTime, TRUE)}

\* Variant: ON CONFLICT DO NOTHING (ignoreDuplicates).
UpsertIgnoreDuplicates(table, payload, id, dbNow) ==
  IF Conflicts(table, payload.user_id, payload.item_id) = {}
    THEN table \cup {Row(id, payload.user_id, payload.access_token, payload.item_id,
                         payload.created_at, payload.updated_at, NoTime, TRUE)}
    ELSE table

\* Variant: the user's rows are deleted and the payload's row inserted.
UpsertReplacesUserRows(table, payload, id, dbNow) ==
  {row \in table : row.user_id # payload.user_id}
    \cup {Row(id, payload.user_id, payload.access_token, payload.item_id,
              payload.created_at, payload.updated_at, NoTime, TRUE)}

\* Variant: a user has one active credential; linking an item deactivates the
\* user's rows for other items.
UpsertDeactivatesOthers(table, payload, id, dbNow) ==
  LET others == {row \in table : row.user_id = payload.user_id /\ row.item_id # payload.item_id}
      kept == {IF row \in others THEN [row EXCEPT !.is_active = FALSE] ELSE row : row \in table}
  IN  IF Conflicts(table, payload.user_id, payload.item_id) = {}
        THEN kept \cup {Row(id, payload.user_id, payload.access_token, payload.item_id,
                            payload.created_at, payload.updated_at, NoTime, TRUE)}
        ELSE {IF row \in Conflicts(kept, payload.user_id, payload.item_id)
                THEN [row EXCEPT !.access_token = payload.access_token,
                                 !.created_at = payload.created_at,
                                 !.updated_at = dbNow]
                ELSE row : row \in kept}

\* supabase.from('user_plaid_tokens').upsert(payload, {onConflict: 'user_id,item_id'}):
\* INSERT ... ON CONFLICT (user_id, item_id) DO UPDATE SET <the payload's columns>.
\* A new row takes the column defaults (last_used_at NULL, is_active TRUE); on
\* conflict only the payload's columns are replaced, and the BEFORE UPDATE
\* trigger then sets updated_at to the database's NOW().
Upsert(table, payload, id, dbNow) ==
  IF Conflicts(table, payload.user_id, payload.item_id) = {}
    THEN table \cup {Row(id, payload.user_id, payload.access_token, payload.item_id,
                         payload.created_at, payload.updated_at, NoTime, TRUE)}
    ELSE {IF row \in Conflicts(table, payload.user_id, payload.item_id)
            THEN [row EXCEPT !.access_token = payload.access_token,
                             !.created_at = payload.created_at,
                             !.updated_at = dbNow]
            ELSE row : row \in table}

\* Variant: only user_id is NOT NULL.
NotNullViolationUserOnly(row) == row.user_id = NoUser

\* user_id, access_token and item_id are NOT NULL: a row lacking one of them
\* is refused, and the statement that proposed it fails as a whole.
NotNullViolation(row) ==
  \/ row.user_id = NoUser
  \/ row.access_token = NoToken
  \/ row.item_id = NoItem

\* store_plaid_token's input validation: IF p_user_id IS NULL OR p_access_token
\* IS NULL OR p_item_id IS NULL THEN RAISE EXCEPTION.
MissingRequiredParameters(p_user_id, p_access_token, p_item_id) ==
  \/ p_user_id = NoUser
  \/ p_access_token = NoToken
  \/ p_item_id = NoItem

\* store_plaid_token of the schema: INSERT (created_at, updated_at default to
\* NOW()) ... ON CONFLICT (user_id, item_id) DO UPDATE SET access_token,
\* updated_at = NOW(), last_used_at = NOW(), is_active = true.  The server
\* never calls it.
store_plaid_token(table, p_user_id, p_access_token, p_item_id, id, dbNow) ==
  IF Conflicts(table, p_user_id, p_item_id) = {}
    THEN table \cup {Row(id, p_user_id, p_access_token, p_item_id, dbNow, dbNow, NoTime, TRUE)}
    ELSE {IF row \in Conflicts(table, p_user_id, p_item_id)
            THEN [row EXCEPT !.access_token = p_access_token,
                             !.updated_at = dbNow,
                             !.last_used_at = dbNow,
                             !.is_active = TRUE]
            ELSE row : row \in table}

\* get_user_plaid_tokens of the schema: the user's rows WHERE is_active = true.
\* The server never calls it.
get_user_plaid_tokens(table, p_user_id) ==
  {row \in table : row.user_id = p_user_id /\ row.is_active}

\* gen_random_uuid(): a value no other row has.  Every upsert carries an access
\* token of its own, whose serial serves.
NewId(payload) == payload.access_token.serial

\* Variant: the token query without .eq('user_id', req.user.id).
SelectAllTokens(table, user_id) == table

\* .select('access_token, item_id').eq('user_id', req.user.id): the rows of
\* the user, whatever is_active says.
SelectTokens(table, user_id) == {row \in table : row.user_id = user_id}

\* The result set in one of the orders the database may return it in.
ResultSets(rows) ==
  {[k \in 1..Cardinality(rows) |->
      [access_token |-> (CHOOSE row \in rows : row.id = p[k]).access_token,
       item_id |-> (CHOOSE row \in rows : row.id = p[k]).item_id]] :
   p \in Perms({row.id : row \in rows})}

\* ------------------------------------------------------------- fan-out
\* The async arrow function mapped over tokens: it awaits the provider call
\* and returns the response, or catches the failure and returns null.  Its
\* promise is what Promise.all waits on.
\* Variant: the wrapper rethrows the failure (as the legacy server's does).
WrapCallRethrow(outcome, data) ==
  IF outcome = "fulfilled"
    THEN [state |-> "fulfilled", value |-> data]
    ELSE [state |-> "rejected", value |-> Null]

WrapCall(outcome, data) ==
  IF outcome = "fulfilled"
    THEN [state |-> "fulfilled", value |-> data]
    ELSE [state |-> "fulfilled", value |-> Null]

\* Variant: results are pushed in completion order.
ResolveElementPush(values, index, value) ==
  [values EXCEPT ![CHOOSE k \in 1..Len(values) :
                     /\ values[k] = Hole
                     /\ \A j \in 1..(k - 1) : values[j] # Hole] = value]

\* Promise.all's resolve-element function: the value of the promise at
\* position index goes to position index of the result array.
ResolveElement(values, index, value) == [values EXCEPT ![index] = value]

\* Variant: fulfilled by the first promise that fulfils.
PromiseAny(prev, values, wrapper) ==
  IF prev # "pending" THEN prev
  ELSE IF wrapper.state = "rejected" THEN "rejected"
  ELSE IF \E k \in 1..Len(values) : values[k] # Hole THEN "fulfilled"
  ELSE "pending"

\* The state of the promise Promise.all returned, after the promise at one
\* position has settled as wrapper: rejected with the first rejection,
\* fulfilled when no position is left unfilled.
PromiseAll(prev, values, wrapper) ==
  IF prev # "pending" THEN prev
  ELSE IF wrapper.state = "rejected" THEN "rejected"
  ELSE IF \A k \in 1..Len(values) : values[k] # Hole THEN "fulfilled"
  ELSE "pending"

\* responses.filter(r => r !== null)
ValidResponses(responses) == SelectSeq(responses, LAMBDA r : r # Null)

RECURSIVE Dedup(_)
\* Variant of the merge: records already seen are dropped.
Dedup(xs) ==
  IF xs = <<>> THEN <<>>
  ELSE LET rest == Dedup(Tail(xs))
       IN  IF \E k \in 1..Len(rest) : rest[k] = Head(xs) THEN rest ELSE <<Head(xs)>> \o rest

RECURSIVE FlatMapAll(_, _)
FlatMapAll(rs, field) ==
  IF rs = <<>> THEN <<>> ELSE Head(rs)[field] \o FlatMapAll(Tail(rs), field)

FlatMapDedup(rs, field) == Dedup(FlatMapAll(rs, field))

RECURSIVE FlatMap(_, _)
\* validResponses.flatMap(r => r.data[field])
FlatMap(rs, field) ==
  IF rs = <<>> THEN <<>> ELSE Head(rs)[field] \o FlatMap(Tail(rs), field)

\* Variant: no check for an empty validResponses.
HoldingsResponseNoCheck(toks, responses) ==
  LET validResponses == ValidResponses(responses)
  IN  [status |-> 200, error |-> "",
       accounts |-> FlatMap(validResponses, "accounts"),
       holdings |-> FlatMap(validResponses, "items"),
       securities |-> FlatMap(validResponses, "securities"),
       total_accounts |-> Len(FlatMap(validResponses, "accounts")),
       total_holdings |-> Len(FlatMap(validResponses, "items")),
       fetched_accounts |-> Len(validResponses),
       total_connected_accounts |-> Len(toks)]

\* The holdings handler from Promise.all's result to res.json / res.status(500).
HoldingsResponse(toks, responses) ==
  LET validResponses == ValidResponses(responses)
  IN  IF Len(validResponses) = 0
        THEN ErrorRes(500, "ALL_ACCOUNTS_FAILED")
        ELSE [status |-> 200, error |-> "",
              accounts |-> FlatMap(validResponses, "accounts"),
              holdings |-> FlatMap(validResponses, "items"),
              securities |-> FlatMap(validResponses, "securities"),
              total_accounts |-> Len(FlatMap(validResponses, "accounts")),
              total_holdings |-> Len(FlatMap(validResponses, "items")),
              fetched_accounts |-> Len(validResponses),
              total_connected_accounts |-> Len(toks)]

\* Variant: total_connected_accounts counts the responses that survived.
TransactionsResponseCountsValid(toks, responses, b) ==
  LET validResponses == ValidResponses(responses)
  IN  IF Len(validResponses) = 0
        THEN ErrorRes(500, "ALL_ACCOUNTS_FAILED")
        ELSE [status |-> 200, error |-> "",
              accounts |-> FlatMap(validResponses, "accounts"),
              investment_transactions |-> FlatMap(validResponses, "items"),
              securities |-> FlatMap(validResponses, "securities"),
              total_investment_transactions |-> Len(FlatMap(validResponses, "items")),
              date_range |-> b,
              fetched_accounts |-> Len(validResponses),
              total_connected_accounts |-> Len(validResponses)]

\* The transactions handler from Promise.all's result to the response.
TransactionsResponse(toks, responses, b) ==
  LET validResponses == ValidResponses(responses)
  IN  IF Len(validResponses) = 0
        THEN ErrorRes(500, "ALL_ACCOUNTS_FAILED")
        ELSE [status |-> 200, error |-> "",
              accounts |-> FlatMap(validResponses, "accounts"),
              investment_transactions |-> FlatMap(validResponses, "items"),
              securities |-> FlatMap(validResponses, "securities"),
              total_investment_transactions |-> Len(FlatMap(validResponses, "items")),
              date_range |-> b,
              fetched_accounts |-> Len(validResponses),
              total_connected_accounts |-> Len(toks)]

\* ------------------------------------------------------------------ state
VARIABLES
  user_plaid_tokens, \* the credential store: a set of rows
  nextToken,         \* serial of the next access token the provider issues
  kind,              \* per slot: the route of the request in the slot
  pc,                \* per slot: the await the handler is suspended at
  reqUser,           \* per slot: req.user.id
  body,              \* per slot: the request body
  tokens,            \* per slot: the rows the token query returned
  plaidCalls,        \* per slot: state of each provider call, by position
  responses,         \* per slot: Promise.all's result array
  all,               \* per slot: state of the promise Promise.all returned
  payload,           \* per slot: the row the exchange handler upserts
  res,               \* per slot: the response sent
  plaidLog,          \* per slot: access tokens of the provider calls issued
  queried,           \* per slot: the token query returned rows (not an error)
  overtaken,         \* per slot: a call settled while an earlier-issued one was pending
  clients,           \* the users whose clients send requests in this run
  authorization,     \* per slot: the bearer token of the Authorization header
  process,           \* the server process: file run, environment, state
  written            \* per (user, item): access token of the last upsert applied

vars ==
  <<user_plaid_tokens, nextToken, kind, pc, reqUser, body, tokens,
    plaidCalls, responses, all, payload, res, plaidLog, queried, overtaken,
    clients, authorization, process,
    written>>

storeVars == <<user_plaid_tokens, written>>
hostVars == <<clients, process>>
fanVars == <<tokens, plaidCalls, responses, all, plaidLog, queried, overtaken>>

\* The logical clock: time advances when the provider issues an access token.
\* new Date() in the server and NOW() in the database both read it.
now == nextToken

NoBody ==
  [start_date |-> <<>>, end_date |-> <<>>, public_token |-> <<>>,
   access_tokens |-> NotAnArray,
   user_id |-> Undefined, redirect_uri |-> <<>>]
NoPayload ==
  [user_id |-> NoUser, access_token |-> NoToken, item_id |-> NoItem,
   created_at |-> NoTime, updated_at |-> NoTime]

\* No request in flight, the table empty; senders are the users whose clients
\* will send requests.
Quiet(senders) ==
  /\ user_plaid_tokens = {}
  /\ nextToken = 1
  /\ kind = [r \in Slots |-> "idle"]
  /\ pc = [r \in Slots |-> "idle"]
  /\ reqUser = [r \in Slots |-> NoUser]
  /\ body = [r \in Slots |-> NoBody]
  /\ tokens = [r \in Slots |-> <<>>]
  /\ plaidCalls = [r \in Slots |-> <<>>]
  /\ responses = [r \in Slots |-> <<>>]
  /\ all = [r \in Slots |-> "pending"]
  /\ payload = [r \in Slots |-> NoPayload]
  /\ res = [r \in Slots |-> NoRes]
  /\ plaidLog = [r \in Slots |-> <<>>]
  /\ queried = [r \in Slots |-> FALSE]
  /\ overtaken = [r \in Slots |-> FALSE]
  /\ clients = senders
  /\ authorization = [r \in Slots |-> "missing"]
  /\ written = [u \in Users, i \in Items |-> NoToken]

\* The state after the server of the file has started with every required
\* option set: it listens.
Started(file, senders) ==
  /\ Quiet(senders)
  /\ process = [file |-> file, env |-> requiredEnvVars, state |-> "listening"]

\* app.listen has run in the process of the file: requests are served.
Listening(file) == process.file = file /\ process.state = "listening"

\* One user's clients send requests.
Init == Started(Secure, {"u1"})

\* Every user's clients send requests.
InitAllUsers == Started(Secure, Users)

\* ---------------------------------------------------------------- requests
\* The middleware chain answered: the handler never runs.
Reject(r, k, b, response) ==
  /\ kind' = [kind EXCEPT ![r] = k]
  /\ pc' = [pc EXCEPT ![r] = "done"]
  /\ body' = [body EXCEPT ![r] = b]
  /\ res' = [res EXCEPT ![r] = response]
  /\ UNCHANGED reqUser

\* The middleware chain called next(): the handler runs to its first await.
Admit(r, k, user_id, b, await) ==
  /\ kind' = [kind EXCEPT ![r] = k]
  /\ pc' = [pc EXCEPT ![r] = await]
  /\ reqUser' = [reqUser EXCEPT ![r] = user_id]
  /\ body' = [body EXCEPT ![r] = b]
  /\ UNCHANGED res

\* GET /api/plaid/investments/holdings: authenticateToken, then the handler
\* up to the token query.
HoldingsRequest(r) ==
  /\ Listening(Secure)
  /\ pc[r] = "idle"
  /\ \E bearer \in Bearers(clients) :
       LET auth == authenticateToken(bearer)
       IN  /\ authorization' = [authorization EXCEPT ![r] = bearer]
           /\ IF auth.ok
                THEN Admit(r, "holdings", auth.user, NoBody, "select")
                ELSE Reject(r, "holdings", NoBody, auth.res)
  /\ UNCHANGED <<storeVars, hostVars, nextToken, fanVars, payload>>

\* POST /api/plaid/investments/transactions: the date validators,
\* validateErrors, authenticateToken, then the handler up to the token query.
TransactionsRequest(r) ==
  /\ Listening(Secure)
  /\ pc[r] = "idle"
  /\ \E bearer \in Bearers(clients), dates \in DateRanges :
       LET auth == authenticateToken(bearer)
           b == [NoBody EXCEPT !.start_date = dates.start_date,
                               !.end_date = dates.end_date]
       IN  /\ authorization' = [authorization EXCEPT ![r] = bearer]
           /\ IF ~validateDates(b)
                THEN Reject(r, "transactions", b, ErrorRes(400, "VALIDATION_ERROR"))
              ELSE IF auth.ok
                THEN Admit(r, "transactions", auth.user, b, "select")
                ELSE Reject(r, "transactions", b, auth.res)
  /\ UNCHANGED <<storeVars, hostVars, nextToken, fanVars, payload>>

\* Variant: authenticateToken ahead of the validators.
ExchangeRequestAuthFirst(r) ==
  /\ Listening(Secure)
  /\ pc[r] = "idle"
  /\ \E bearer \in Bearers(clients), public_token \in PublicTokens :
       LET auth == authenticateToken(bearer)
           b == [NoBody EXCEPT !.public_token = public_token]
       IN  /\ authorization' = [authorization EXCEPT ![r] = bearer]
           /\ IF ~auth.ok
                THEN Reject(r, "exchange", b, auth.res)
              ELSE IF ~validatePublicToken(public_token)
                THEN /\ kind' = [kind EXCEPT ![r] = "exchange"]
                     /\ pc' = [pc EXCEPT ![r] = "done"]
                     /\ reqUser' = [reqUser EXCEPT ![r] = auth.user]
                     /\ body' = [body EXCEPT ![r] = b]
                     /\ res' = [res EXCEPT ![r] = ErrorRes(400, "VALIDATION_ERROR")]
                ELSE Admit(r, "exchange", auth.user, b, "exchange")
  /\ UNCHANGED <<storeVars, hostVars, nextToken, fanVars, payload>>

\* POST /api/plaid/exchange-public-token: the public_token validator,
\* validateErrors, authenticateToken, then the handler up to
\* await plaidClient.itemPublicTokenExchange.
ExchangeRequest(r) ==
  /\ Listening(Secure)
  /\ pc[r] = "idle"
  /\ \E bearer \in Bearers(clients), public_token \in PublicTokens :
       LET auth == authenticateToken(bearer)
           b == [NoBody EXCEPT !.public_token = public_token]
       IN  /\ authorization' = [authorization EXCEPT ![r] = bearer]
           /\ IF ~validatePublicToken(public_token)
                THEN Reject(r, "exchange", b, ErrorRes(400, "VALIDATION_ERROR"))
              ELSE IF auth.ok
                THEN Admit(r, "exchange", auth.user, b, "exchange")
                ELSE Reject(r, "exchange", b, auth.res)
  /\ UNCHANGED <<storeVars, hostVars, nextToken, fanVars, payload>>

\* ------------------------------------------------------------- link-token
\* Variant: client_user_id is req.body.user_id when the body has one (as in
\* the legacy server).
LinkTokenConfigFromBody(user_id, b) ==
  [client_user_id |-> IF b.user_id # Undefined THEN b.user_id.value ELSE user_id,
   redirect_uri |-> IF b.redirect_uri = <<>> THEN AppUrl ELSE b.redirect_uri]

\* linkTokenConfig of the secure create-link-token handler, reduced to the
\* fields that vary: user.client_user_id and redirect_uri.
LinkTokenConfig(user_id, b) ==
  [client_user_id |-> user_id,
   redirect_uri |-> IF b.redirect_uri = <<>> THEN AppUrl ELSE b.redirect_uri]

\* response.data of plaidClient.linkTokenCreate: a link token for the user the
\* configuration names.
LinkTokenData(linkTokenConfig) ==
  [link_token |-> [client_user_id |-> linkTokenConfig.client_user_id]]

\* POST /api/plaid/create-link-token: the validators, validateErrors,
\* authenticateToken, then the handler up to await plaidClient.linkTokenCreate.
LinkTokenRequest(r) ==
  /\ Listening(Secure)
  /\ pc[r] = "idle"
  /\ \E bearer \in Bearers(clients), user_id \in UserIdValues, redirect_uri \in RedirectUris :
       LET auth == authenticateToken(bearer)
           b == [NoBody EXCEPT !.user_id = user_id, !.redirect_uri = redirect_uri]
       IN  /\ authorization' = [authorization EXCEPT ![r] = bearer]
           /\ IF ~validateLinkToken(b)
                THEN /\ Reject(r, "link", b, ErrorRes(400, "VALIDATION_ERROR"))
                     /\ UNCHANGED plaidLog
              ELSE IF auth.ok
                THEN /\ Admit(r, "link", auth.user, b, "link")
                     /\ plaidLog' = [plaidLog EXCEPT ![r] = <<LinkTokenConfig(auth.user, b)>>]
                ELSE /\ Reject(r, "link", b, auth.res)
                     /\ UNCHANGED plaidLog
  /\ UNCHANGED <<storeVars, hostVars, nextToken, tokens, plaidCalls, responses, all,
                 queried, overtaken, payload>>

\* linkTokenCreate settles: the handler answers with the link token, or its
\* catch block answers 500.
LinkTokenSettles(r) ==
  /\ kind[r] = "link"
  /\ pc[r] = "link"
  /\ \/ res' = [res EXCEPT ![r] =
             [status |-> 200, error |-> "",
              link_token |-> LinkTokenData(plaidLog[r][1]).link_token]]
     \/ res' = [res EXCEPT ![r] = ErrorRes(500, "LINK_TOKEN_CREATE_FAILED")]
  /\ pc' = [pc EXCEPT ![r] = "done"]
  /\ UNCHANGED <<storeVars, hostVars, nextToken, kind, reqUser, body, authorization,
                 fanVars, payload>>

\* ---------------------------------------------------------- exchange-token
\* Variant: the handler goes on to the upsert when the exchange has failed.
ExchangeSettlesThenStores(r) ==
  /\ pc[r] = "exchange"
  /\ \/ /\ nextToken <= MaxTokens
        /\ LET item_id == body[r].public_token[1]
               access_token == [item |-> item_id, serial |-> nextToken]
           IN  payload' = [payload EXCEPT ![r] =
                 [user_id |-> reqUser[r], access_token |-> access_token,
                  item_id |-> item_id, created_at |-> now, updated_at |-> now]]
        /\ nextToken' = nextToken + 1
     \/ /\ payload' = [payload EXCEPT ![r] =
             [user_id |-> reqUser[r], access_token |-> NoToken,
              item_id |-> body[r].public_token[1], created_at |-> now, updated_at |-> now]]
        /\ UNCHANGED nextToken
  /\ pc' = [pc EXCEPT ![r] = "upsert"]
  /\ UNCHANGED <<storeVars, hostVars, kind, reqUser, body, authorization, fanVars, res>>

\* itemPublicTokenExchange settles.  On success the provider hands out a fresh
\* access token for the item of the public token, and the handler builds the
\* row (created_at and updated_at are the server's new Date()) and awaits the
\* upsert; on failure the catch block answers 500.
ExchangeSettles(r) ==
  /\ pc[r] = "exchange"
  /\ \/ /\ nextToken <= MaxTokens
        /\ LET item_id == body[r].public_token[1]
               access_token == [item |-> item_id, serial |-> nextToken]
           IN  payload' = [payload EXCEPT ![r] =
                 [user_id |-> reqUser[r], access_token |-> access_token,
                  item_id |-> item_id, created_at |-> now, updated_at |-> now]]
        /\ nextToken' = nextToken + 1
        /\ pc' = [pc EXCEPT ![r] = "upsert"]
        /\ UNCHANGED res
     \/ /\ res' = [res EXCEPT ![r] = ErrorRes(500, "TOKEN_EXCHANGE_FAILED")]
        /\ pc' = [pc EXCEPT ![r] = "done"]
        /\ UNCHANGED <<payload, nextToken>>
  /\ UNCHANGED <<storeVars, hostVars, kind, reqUser, body, authorization, fanVars>>

\* The upsert settles: the database applied it, or returned an error and left
\* the table alone.  dbError is logged and the handler answers success in both
\* cases.
ExchangeStores(r) ==
  /\ pc[r] = "upsert"
  /\ \/ /\ user_plaid_tokens' =
             Upsert(user_plaid_tokens, payload[r], NewId(payload[r]), now)
        /\ written' = [written EXCEPT ![payload[r].user_id, payload[r].item_id] =
                         payload[r].access_token]
     \/ UNCHANGED storeVars
  /\ res' = [res EXCEPT ![r] =
       [status |-> 200, error |-> "", success |-> TRUE, item_id |-> payload[r].item_id]]
  /\ pc' = [pc EXCEPT ![r] = "done"]
  /\ UNCHANGED <<hostVars, nextToken, kind, reqUser, body, authorization, fanVars, payload>>

\* ------------------------------------------------------ deprecated endpoints
\* legacyWarning sets the deprecation headers and calls next(); the handler
\* answers 401.
DeprecatedEndpoint ==
  [status |-> 401, error |-> "DEPRECATED_ENDPOINT", x_deprecated |-> "true"]

\* POST /api/create_link_token of server-secure.js, with any body and bearer.
DeprecatedCreateLinkToken(r) ==
  /\ Listening(Secure)
  /\ pc[r] = "idle"
  /\ \E bearer \in Bearers(clients), user_id \in UserIdValues :
       /\ authorization' = [authorization EXCEPT ![r] = bearer]
       /\ Reject(r, "deprecated_create_link_token", [NoBody EXCEPT !.user_id = user_id],
                 DeprecatedEndpoint)
  /\ UNCHANGED <<storeVars, hostVars, nextToken, fanVars, payload>>

\* Variant: the deprecated path hands an authenticated request to the secure
\* handler.
DeprecatedExchangeForwards(r) ==
  /\ Listening(Secure)
  /\ pc[r] = "idle"
  /\ \E bearer \in Bearers(clients), public_token \in PublicTokens \ {<<>>} :
       LET auth == authenticateToken(bearer)
           b == [NoBody EXCEPT !.public_token = public_token]
       IN  /\ authorization' = [authorization EXCEPT ![r] = bearer]
           /\ IF auth.ok
                THEN Admit(r, "deprecated_exchange_public_token", auth.user, b, "exchange")
                ELSE Reject(r, "deprecated_exchange_public_token", b, DeprecatedEndpoint)
  /\ UNCHANGED <<storeVars, hostVars, nextToken, fanVars, payload>>

\* POST /api/exchange_public_token of server-secure.js, with any body and
\* bearer.
DeprecatedExchangePublicToken(r) ==
  /\ Listening(Secure)
  /\ pc[r] = "idle"
  /\ \E bearer \in Bearers(clients), public_token \in PublicTokens :
       /\ authorization' = [authorization EXCEPT ![r] = bearer]
       /\ Reject(r, "deprecated_exchange_public_token",
                 [NoBody EXCEPT !.public_token = public_token], DeprecatedEndpoint)
  /\ UNCHANGED <<storeVars, hostVars, nextToken, fanVars, payload>>

\* ------------------------------------------------- holdings / transactions
\* Variant: only a query error counts.
NoConnectedAccountsOnError(error, toks) == error

\* if (error || !tokens || tokens.length === 0)
NoConnectedAccounts(error, toks) == error \/ Len(toks) = 0

\* Variant: only the first row's token is used.
IssueFirstOnly(toks) == [k \in 1..1 |-> toks[k].access_token]

\* tokens.map(async ...): one provider call per row of the result set, issued
\* in the row's position, each with the row's access token.
IssueCalls(toks) == [k \in 1..Len(toks) |-> toks[k].access_token]

\* The promise Promise.all returns for an array of promises that are all
\* pending (an empty array fulfils at once).
PromiseAllStart(promises) == IF Len(promises) = 0 THEN "fulfilled" ELSE "pending"

\* The token query settles (with an error, or with the user's rows in some
\* order); the handler answers 404 or issues every provider call and awaits
\* Promise.all.
TokensSelected(r) ==
  /\ pc[r] = "select"
  /\ \E error \in BOOLEAN :
     \E toks \in IF error THEN {<<>>}
                 ELSE ResultSets(SelectTokens(user_plaid_tokens, reqUser[r])) :
       /\ queried' = [queried EXCEPT ![r] = ~error]
       /\ tokens' = [tokens EXCEPT ![r] = toks]
       /\ IF NoConnectedAccounts(error, toks)
            THEN /\ res' = [res EXCEPT ![r] = ErrorRes(404, "NO_CONNECTED_ACCOUNTS")]
                 /\ pc' = [pc EXCEPT ![r] = "done"]
                 /\ UNCHANGED <<plaidLog, plaidCalls, responses, all>>
            ELSE /\ plaidLog' = [plaidLog EXCEPT ![r] = IssueCalls(toks)]
                 /\ plaidCalls' = [plaidCalls EXCEPT ![r] =
                                     [k \in 1..Len(IssueCalls(toks)) |-> "pending"]]
                 /\ responses' = [responses EXCEPT ![r] =
                                    [k \in 1..Len(IssueCalls(toks)) |-> Hole]]
                 /\ all' = [all EXCEPT ![r] = PromiseAllStart(IssueCalls(toks))]
                 /\ pc' = [pc EXCEPT ![r] = "fanout"]
                 /\ UNCHANGED res
  /\ UNCHANGED <<storeVars, hostVars, nextToken, kind, reqUser, body, authorization, payload, overtaken>>

\* The token query of GET /api/plaid/investments/holdings settles.
HoldingsSelected(r) == kind[r] = "holdings" /\ TokensSelected(r)

\* The token query of POST /api/plaid/investments/transactions settles.
TransactionsSelected(r) == kind[r] = "transactions" /\ TokensSelected(r)

\* One provider call settles, in any order and with either outcome; the
\* wrapper's promise settles with it and Promise.all takes note.
CallSettles(r, index) ==
  /\ pc[r] = "fanout"
  /\ index \in 1..Len(plaidCalls[r])
  /\ plaidCalls[r][index] = "pending"
  /\ \E outcome \in {"fulfilled", "rejected"} :
       LET wrapper == WrapCall(outcome, ProviderData(kind[r], plaidLog[r][index]))
           values == IF wrapper.state = "fulfilled"
                       THEN ResolveElement(responses[r], index, wrapper.value)
                       ELSE responses[r]
       IN  /\ plaidCalls' = [plaidCalls EXCEPT ![r][index] = outcome]
           /\ responses' = [responses EXCEPT ![r] = values]
           /\ all' = [all EXCEPT ![r] = PromiseAll(all[r], values, wrapper)]
  /\ overtaken' = [overtaken EXCEPT ![r] =
       overtaken[r] \/ \E j \in 1..(index - 1) : plaidCalls[r][j] = "pending"]
  /\ UNCHANGED <<storeVars, hostVars, nextToken, kind, pc, reqUser, body, authorization, tokens, plaidLog,
                 queried, payload, res>>

\* investmentsHoldingsGet settles for one access token.
HoldingsCallSettles(r, index) == kind[r] = "holdings" /\ CallSettles(r, index)

\* investmentsTransactionsGet settles for one access token.
TransactionsCallSettles(r, index) == kind[r] = "transactions" /\ CallSettles(r, index)

\* r.data of an array element that is not a response object throws; the
\* handler's outer catch answers 500.
Throws(responses_r) ==
  \E k \in 1..Len(responses_r) : responses_r[k] # Null /\ responses_r[k].tag # "response"

\* await Promise.all(holdingPromises) returns or throws: the holdings handler
\* filters, merges and answers.
HoldingsResponds(r) ==
  /\ kind[r] = "holdings"
  /\ pc[r] = "fanout"
  /\ all[r] # "pending"
  /\ res' = [res EXCEPT ![r] =
       IF all[r] = "rejected" \/ Throws(responses[r])
         THEN ErrorRes(500, "HOLDINGS_FETCH_FAILED")
         ELSE HoldingsResponse(tokens[r], responses[r])]
  /\ pc' = [pc EXCEPT ![r] = "done"]
  /\ UNCHANGED <<storeVars, hostVars, nextToken, kind, reqUser, body, authorization, fanVars, payload>>

\* await Promise.all(transactionPromises) returns or throws: the transactions
\* handler filters, merges and answers.
TransactionsResponds(r) ==
  /\ kind[r] = "transactions"
  /\ pc[r] = "fanout"
  /\ all[r] # "pending"
  /\ res' = [res EXCEPT ![r] =
       IF all[r] = "rejected" \/ Throws(responses[r])
         THEN ErrorRes(500, "TRANSACTIONS_FETCH_FAILED")
         ELSE TransactionsResponse(tokens[r], responses[r],
                [start_date |-> body[r].start_date, end_date |-> body[r].end_date])]
  /\ pc' = [pc EXCEPT ![r] = "done"]
  /\ UNCHANGED <<storeVars, hostVars, nextToken, kind, reqUser, body, authorization, fanVars, payload>>

\* The response has gone out and the slot takes the next request.
Close(r) ==
  /\ pc[r] = "done"
  /\ kind' = [kind EXCEPT ![r] = "idle"]
  /\ pc' = [pc EXCEPT ![r] = "idle"]
  /\ reqUser' = [reqUser EXCEPT ![r] = NoUser]
  /\ body' = [body EXCEPT ![r] = NoBody]
  /\ authorization' = [authorization EXCEPT ![r] = "missing"]
  /\ tokens' = [tokens EXCEPT ![r] = <<>>]
  /\ plaidCalls' = [plaidCalls EXCEPT ![r] = <<>>]
  /\ responses' = [responses EXCEPT ![r] = <<>>]
  /\ all' = [all EXCEPT ![r] = "pending"]
  /\ payload' = [payload EXCEPT ![r] = NoPayload]
  /\ res' = [res EXCEPT ![r] = NoRes]
  /\ plaidLog' = [plaidLog EXCEPT ![r] = <<>>]
  /\ queried' = [queried EXCEPT ![r] = FALSE]
  /\ overtaken' = [overtaken EXCEPT ![r] = FALSE]
  /\ UNCHANGED <<storeVars, hostVars, nextToken>>

\* deactivate(userId, itemId) of the credential store's contract: marks the
\* credential inactive, from outside the server (no route of the server does).
Deactivate(user_id, item_id) ==
  /\ \E row \in Conflicts(user_plaid_tokens, user_id, item_id) : row.is_active
  /\ user_plaid_tokens' =
       {IF row \in Conflicts(user_plaid_tokens, user_id, item_id)
          THEN [row EXCEPT !.is_active = FALSE]
          ELSE row : row \in user_plaid_tokens}
  /\ UNCHANGED <<written, hostVars, nextToken, kind, pc, reqUser, body, authorization, fanVars, payload, res>>

\* The steps of the routes that read or write the credential store.
CredentialNext ==
  \/ \E r \in FanSlots : HoldingsRequest(r)
  \/ \E r \in FanSlots : TransactionsRequest(r)
  \/ \E r \in Slots : ExchangeRequest(r)
  \/ \E r \in Slots : ExchangeSettles(r)
  \/ \E r \in Slots : ExchangeStores(r)
  \/ \E r \in FanSlots : HoldingsSelected(r)
  \/ \E r \in FanSlots : TransactionsSelected(r)
  \/ \E r \in FanSlots, index \in Items : HoldingsCallSettles(r, index)
  \/ \E r \in FanSlots, index \in Items : TransactionsCallSettles(r, index)
  \/ \E r \in FanSlots : HoldingsResponds(r)
  \/ \E r \in FanSlots : TransactionsResponds(r)
  \/ \E r \in Slots : Close(r)

\* The steps of the server's routes.
ServerNext ==
  \/ \E r \in FanSlots : LinkTokenRequest(r)
  \/ \E r \in FanSlots : LinkTokenSettles(r)
  \/ \E r \in FanSlots : DeprecatedCreateLinkToken(r)
  \/ \E r \in FanSlots : DeprecatedExchangePublicToken(r)
  \/ CredentialNext

\* The server, and deactivation from outside it.
Next ==
  \/ ServerNext
  \/ \E user_id \in Users, item_id \in Deactivable : Deactivate(user_id, item_id)

Spec == Init /\ [][Next]_vars

\* The routes of the credential store alone, serving every user.
SpecAllUsers == InitAllUsers /\ [][CredentialNext]_vars

\* ------------------------------------------------- link-token requests alone
LinkNext ==
  \/ \E r \in Slots : LinkTokenRequest(r)
  \/ \E r \in Slots : LinkTokenSettles(r)
  \/ \E r \in Slots : Close(r)

\* Two link-token requests in flight at a time, of any users.
SpecLink == InitAllUsers /\ [][LinkNext]_vars

\* ------------------------------------------------------ direct store calls
\* The two upserts of the repository applied to arbitrary arguments, any of
\* which may be absent: the supabase upsert of the exchange handler, and the
\* schema's store_plaid_token.  Each call is one statement, hence one step.
StoreArguments ==
  {[user_id |-> user_id, access_token |-> access_token, item_id |-> item_id,
    created_at |-> now, updated_at |-> now] :
     user_id \in Users \cup {NoUser},
     access_token \in {NoToken} \cup {[item |-> item, serial |-> nextToken] : item \in Items},
     item_id \in Items \cup {NoItem}}

\* The call's arguments and outcome are recorded in the slot; a token that was
\* passed is used up.
StoreCalled(r, k, arguments, error, table) ==
  /\ kind' = [kind EXCEPT ![r] = k]
  /\ pc' = [pc EXCEPT ![r] = "done"]
  /\ payload' = [payload EXCEPT ![r] = arguments]
  /\ res' = [res EXCEPT ![r] = [status |-> 0, error |-> error]]
  /\ user_plaid_tokens' = table
  /\ written' = IF table = user_plaid_tokens THEN written
                ELSE [written EXCEPT ![arguments.user_id, arguments.item_id] =
                        arguments.access_token]
  /\ nextToken' = IF arguments.access_token = NoToken THEN nextToken ELSE nextToken + 1
  /\ UNCHANGED <<hostVars, reqUser, body, authorization, fanVars>>

\* supabase.from('user_plaid_tokens').upsert(arguments, {onConflict: ...}).
UpsertCalled(r) ==
  /\ pc[r] = "idle"
  /\ \E arguments \in StoreArguments :
       /\ arguments.access_token # NoToken => nextToken <= MaxTokens
       /\ IF NotNullViolation(arguments)
            THEN StoreCalled(r, "upsert", arguments, "not_null_violation", user_plaid_tokens)
            ELSE StoreCalled(r, "upsert", arguments, "",
                   Upsert(user_plaid_tokens, arguments, NewId(arguments), now))

\* SELECT store_plaid_token(p_user_id, p_access_token, p_item_id).
StorePlaidTokenCalled(r) ==
  /\ pc[r] = "idle"
  /\ \E arguments \in StoreArguments :
       /\ arguments.access_token # NoToken => nextToken <= MaxTokens
       /\ IF MissingRequiredParameters(arguments.user_id, arguments.access_token,
                                       arguments.item_id)
            THEN StoreCalled(r, "store_plaid_token", arguments,
                   "Missing required parameters", user_plaid_tokens)
            ELSE StoreCalled(r, "store_plaid_token", arguments, "",
                   store_plaid_token(user_plaid_tokens, arguments.user_id,
                     arguments.access_token, arguments.item_id, NewId(arguments), now))

StoreNext ==
  \/ \E r \in FanSlots : UpsertCalled(r)
  \/ \E r \in FanSlots : StorePlaidTokenCalled(r)
  \/ \E r \in FanSlots : Close(r)

\* No client sends requests.
InitStore == Started(Secure, {})

\* The credential store alone, called directly.
SpecStore == InitStore /\ [][StoreNext]_vars

\* ------------------------------------------------ legacy server (server.js)
\* server.js has no authentication and no credential store: the client sends
\* the access tokens in the request body (its exchange route hands them to
\* the client).
LegacyTokens == {[item |-> item, serial |-> item] : item \in Items}

\* access_tokens of a request body: no array, the empty array, or the tokens of
\* some linked items in some order.
AccessTokenArrays ==
  {NotAnArray} \cup {Array(p) : p \in UNION {Perms(S) : S \in SUBSET LegacyTokens}}

\* if (!access_tokens || !Array.isArray(access_tokens) || access_tokens.length === 0)
InvalidAccessTokens(access_tokens) ==
  access_tokens.type # "array" \/ Len(access_tokens.value) = 0

\* if (!access_tokens || !Array.isArray(access_tokens)), of the alternative paths.
InvalidAccessTokensAlt(access_tokens) == access_tokens.type # "array"

\* if (!start_date || !end_date)
MissingDateRange(b) == Len(b.start_date) = 0 \/ Len(b.end_date) = 0

\* if (!dateRegex.test(start_date) || !dateRegex.test(end_date))
InvalidDateFormat(b) == ~MatchesDate(b.start_date) \/ ~MatchesDate(b.end_date)

\* access_tokens.map(async (token, index) => ...): every call is issued, then
\* the handler awaits Promise.all.
LegacyFanOut(r, k, b) ==
  /\ kind' = [kind EXCEPT ![r] = k]
  /\ body' = [body EXCEPT ![r] = b]
  /\ plaidLog' = [plaidLog EXCEPT ![r] = b.access_tokens.value]
  /\ plaidCalls' = [plaidCalls EXCEPT ![r] =
                      [i \in 1..Len(b.access_tokens.value) |-> "pending"]]
  /\ responses' = [responses EXCEPT ![r] = [i \in 1..Len(b.access_tokens.value) |-> Hole]]
  /\ all' = [all EXCEPT ![r] = PromiseAllStart(b.access_tokens.value)]
  /\ pc' = [pc EXCEPT ![r] = "fanout"]
  /\ UNCHANGED <<res, reqUser, tokens, queried, overtaken>>

\* The handler answered before any await.
LegacyReject(r, k, b, response) ==
  /\ Reject(r, k, b, response)
  /\ UNCHANGED fanVars

\* POST /api/investments/holdings of server.js.
LegacyHoldingsRequest(r) ==
  /\ Listening(Legacy)
  /\ pc[r] = "idle"
  /\ \E access_tokens \in AccessTokenArrays :
       LET b == [NoBody EXCEPT !.access_tokens = access_tokens]
       IN  IF InvalidAccessTokens(access_tokens)
             THEN LegacyReject(r, "legacy_holdings", b, ErrorRes(400, "INVALID_ACCESS_TOKENS"))
             ELSE LegacyFanOut(r, "legacy_holdings", b)
  /\ UNCHANGED <<storeVars, hostVars, nextToken, payload, authorization>>

\* POST /api/investments/transactions of server.js.
LegacyTransactionsRequest(r) ==
  /\ Listening(Legacy)
  /\ pc[r] = "idle"
  /\ \E access_tokens \in AccessTokenArrays, dates \in DateRanges :
       LET b == [NoBody EXCEPT !.access_tokens = access_tokens,
                               !.start_date = dates.start_date,
                               !.end_date = dates.end_date]
       IN  IF InvalidAccessTokens(access_tokens)
             THEN LegacyReject(r, "legacy_transactions", b,
                               ErrorRes(400, "INVALID_ACCESS_TOKENS"))
           ELSE IF MissingDateRange(b)
             THEN LegacyReject(r, "legacy_transactions", b, ErrorRes(400, "MISSING_DATE_RANGE"))
           ELSE IF InvalidDateFormat(b)
             THEN LegacyReject(r, "legacy_transactions", b, ErrorRes(400, "INVALID_DATE_FORMAT"))
           ELSE LegacyFanOut(r, "legacy_transactions", b)
  /\ UNCHANGED <<storeVars, hostVars, nextToken, payload, authorization>>

\* POST /api/plaid/investments/holdings of server.js ("legacy endpoint for iOS
\* compatibility").
LegacyAltHoldingsRequest(r) ==
  /\ Listening(Legacy)
  /\ pc[r] = "idle"
  /\ \E access_tokens \in AccessTokenArrays :
       LET b == [NoBody EXCEPT !.access_tokens = access_tokens]
       IN  IF InvalidAccessTokensAlt(access_tokens)
             THEN LegacyReject(r, "legacy_alt_holdings", b,
                               ErrorRes(400, "INVALID_ACCESS_TOKENS"))
             ELSE LegacyFanOut(r, "legacy_alt_holdings", b)
  /\ UNCHANGED <<storeVars, hostVars, nextToken, payload, authorization>>

\* POST /api/plaid/investments/transactions of server.js.
LegacyAltTransactionsRequest(r) ==
  /\ Listening(Legacy)
  /\ pc[r] = "idle"
  /\ \E access_tokens \in AccessTokenArrays, dates \in DateRanges :
       LET b == [NoBody EXCEPT !.access_tokens = access_tokens,
                               !.start_date = dates.start_date,
                               !.end_date = dates.end_date]
       IN  IF InvalidAccessTokensAlt(access_tokens)
             THEN LegacyReject(r, "legacy_alt_transactions", b,
                               ErrorRes(400, "INVALID_ACCESS_TOKENS"))
           ELSE IF MissingDateRange(b)
             THEN LegacyReject(r, "legacy_alt_transactions", b,
                               ErrorRes(400, "MISSING_DATE_RANGE"))
           ELSE LegacyFanOut(r, "legacy_alt_transactions", b)
  /\ UNCHANGED <<storeVars, hostVars, nextToken, payload, authorization>>

LegacyHoldingsKinds == {"legacy_holdings", "legacy_alt_holdings"}
LegacyTransactionsKinds == {"legacy_transactions", "legacy_alt_transactions"}

\* The provider's data for a call of a legacy request.
LegacyData(k, access_token) ==
  ProviderData(IF k \in LegacyHoldingsKinds THEN "holdings" ELSE "transactions", access_token)

\* One provider call of a legacy request settles.  The wrapper rethrows a
\* failure, so Promise.all rejects with the first call that fails; the other
\* calls stay in flight and settle later, unobserved.
LegacyCallSettles(r, index) ==
  /\ kind[r] \in LegacyHoldingsKinds \cup LegacyTransactionsKinds
  /\ pc[r] \in {"fanout", "done"}
  /\ index \in 1..Len(plaidCalls[r])
  /\ plaidCalls[r][index] = "pending"
  /\ \E outcome \in {"fulfilled", "rejected"} :
       LET wrapper == WrapCallRethrow(outcome, LegacyData(kind[r], plaidLog[r][index]))
           values == IF wrapper.state = "fulfilled"
                       THEN ResolveElement(responses[r], index, wrapper.value)
                       ELSE responses[r]
       IN  /\ plaidCalls' = [plaidCalls EXCEPT ![r][index] = outcome]
           /\ responses' = [responses EXCEPT ![r] = values]
           /\ all' = [all EXCEPT ![r] = PromiseAll(all[r], values, wrapper)]
  /\ overtaken' = [overtaken EXCEPT ![r] =
       overtaken[r] \/ \E j \in 1..(index - 1) : plaidCalls[r][j] = "pending"]
  /\ UNCHANGED <<storeVars, hostVars, nextToken, kind, pc, reqUser, body, authorization, tokens, plaidLog,
                 queried, payload, res>>

\* res.json of the legacy holdings handler: every response merged, unfiltered.
LegacyHoldingsResponse(rs) ==
  [status |-> 200, error |-> "",
   accounts |-> FlatMap(rs, "accounts"),
   holdings |-> FlatMap(rs, "items"),
   securities |-> FlatMap(rs, "securities"),
   total_accounts |-> Len(FlatMap(rs, "accounts")),
   total_holdings |-> Len(FlatMap(rs, "items"))]

\* res.json of the legacy transactions handler.
LegacyTransactionsResponse(rs, b) ==
  [status |-> 200, error |-> "",
   accounts |-> FlatMap(rs, "accounts"),
   investment_transactions |-> FlatMap(rs, "items"),
   securities |-> FlatMap(rs, "securities"),
   total_investment_transactions |-> Len(FlatMap(rs, "items")),
   date_range |-> [start_date |-> b.start_date, end_date |-> b.end_date]]

\* await Promise.all returns or throws in a legacy handler.
LegacyResponds(r) ==
  /\ kind[r] \in LegacyHoldingsKinds \cup LegacyTransactionsKinds
  /\ pc[r] = "fanout"
  /\ all[r] # "pending"
  /\ res' = [res EXCEPT ![r] =
       IF kind[r] \in LegacyHoldingsKinds
         THEN IF all[r] = "rejected"
                THEN ErrorRes(500, "HOLDINGS_FETCH_FAILED")
                ELSE LegacyHoldingsResponse(responses[r])
         ELSE IF all[r] = "rejected"
                THEN ErrorRes(500, "TRANSACTIONS_FETCH_FAILED")
                ELSE LegacyTransactionsResponse(responses[r], body[r])]
  /\ pc' = [pc EXCEPT ![r] = "done"]
  /\ UNCHANGED <<storeVars, hostVars, nextToken, kind, reqUser, body, authorization, fanVars, payload>>

\* One slot takes the requests to the main paths, the other those to the
\* alternative paths.
AltSlots == Slots \ FanSlots

LegacyNext ==
  \/ \E r \in FanSlots : LegacyHoldingsRequest(r)
  \/ \E r \in FanSlots : LegacyTransactionsRequest(r)
  \/ \E r \in AltSlots : LegacyAltHoldingsRequest(r)
  \/ \E r \in AltSlots : LegacyAltTransactionsRequest(r)
  \/ \E r \in Slots, index \in Items : LegacyCallSettles(r, index)
  \/ \E r \in Slots : LegacyResponds(r)
  \/ \E r \in Slots : Close(r)

\* server.js: no user is known to it.
InitLegacy == Started(Legacy, {})

SpecLegacy == InitLegacy /\ [][LegacyNext]_vars

\* ------------------------------------------------------------------ startup
\* The options a server cannot work without: server-secure.js lists its own;
\* server.js reads the provider's client id and secret.
RequiredOptions(file) ==
  IF file = Secure THEN requiredEnvVars ELSE {"PLAID_CLIENT_ID", "PLAID_SECRET"}

\* requiredEnvVars.filter(varName => !process.env[varName])
missingVars(env) == requiredEnvVars \ env

\* node server-secure.js runs the module to its end: process.exit(1) if a
\* required variable is missing, app.listen otherwise.
StartSecure ==
  /\ process.file = Secure
  /\ process.state = "loading"
  /\ process' = [process EXCEPT !.state =
       IF missingVars(process.env) # {} THEN "exited" ELSE "listening"]
  /\ UNCHANGED <<storeVars, clients, nextToken, kind, pc, reqUser, body, authorization,
                 fanVars, payload, res>>

\* node server.js runs the module to its end: app.listen, whatever is set.
StartLegacy ==
  /\ process.file = Legacy
  /\ process.state = "loading"
  /\ process' = [process EXCEPT !.state = "listening"]
  /\ UNCHANGED <<storeVars, clients, nextToken, kind, pc, reqUser, body, authorization,
                 fanVars, payload, res>>

\* Either server is launched with any subset of the required variables set.
InitStartup ==
  /\ Quiet({"u1"})
  /\ process \in {[file |-> file, env |-> env, state |-> "loading"] :
                    file \in {Secure, Legacy}, env \in SUBSET requiredEnvVars}

StartupNext ==
  \/ StartSecure
  \/ StartLegacy
  \/ ServerNext
  \/ LegacyNext

\* The servers from launch on.
SpecStartup == InitStartup /\ [][StartupNext]_vars

\* C23: a server listens, and a request is taken up, only in a process that has
\* every option the server requires.
C23_MissingConfigIsFatal ==
  /\ process.state = "listening" => RequiredOptions(process.file) \subseteq process.env
  /\ (\E r \in Slots : pc[r] # "idle") => RequiredOptions(process.file) \subseteq process.env

\* ============================================================== properties
Fan(r) == kind[r] \in {"holdings", "transactions"}
Positions(r) == 1..Len(plaidCalls[r])
Fulfilled(r) == {k \in Positions(r) : plaidCalls[r][k] = "fulfilled"}
Rejected(r) == {k \in Positions(r) : plaidCalls[r][k] = "rejected"}
Pending(r) == {k \in Positions(r) : plaidCalls[r][k] = "pending"}

\* What the provider holds for the credential at position k of the request.
DataOf(r, k) == ProviderData(kind[r], tokens[r][k].access_token)

\* The merged holdings / investment_transactions of a success response.
MergedItems(r) ==
  IF kind[r] = "holdings" THEN res[r].holdings ELSE res[r].investment_transactions

Merged(r, field) == IF field = "items" THEN MergedItems(r) ELSE res[r][field]

Fields == {"accounts", "items", "securities"}

\* C1: a holdings request over a non-empty credential list in which at least
\* one provider call succeeded answers with a success, fetched_accounts being
\* the number of calls that succeeded and total_connected_accounts the number
\* of credentials.
C1_PartialFailureTolerance ==
  \A r \in Slots :
    (kind[r] = "holdings" /\ pc[r] = "done" /\ Fulfilled(r) # {}) =>
      /\ res[r].status = 200
      /\ res[r].fetched_accounts = Cardinality(Fulfilled(r))
      /\ res[r].total_connected_accounts = Len(tokens[r])

\* A holdings request answered after one call succeeded and another failed.
C1_Witness ==
  \E r \in Slots :
    /\ kind[r] = "holdings" /\ pc[r] = "done"
    /\ Fulfilled(r) # {} /\ Rejected(r) # {}
    /\ res[r].status = 200
    /\ res[r].fetched_accounts < res[r].total_connected_accounts

\* C2: from the fan-out on, exactly one provider call has been issued for every
\* credential the store returned, each with the credential's token, whatever
\* has failed since (nothing re-issued, nothing left out); and the result of
\* every call that succeeded is kept while others fail.
C2_OneCallPerCredential ==
  \A r \in Slots :
    (Fan(r) /\ queried[r] /\ tokens[r] # <<>>) =>
      /\ Len(plaidLog[r]) = Len(tokens[r])
      /\ \A k \in 1..Len(tokens[r]) : plaidLog[r][k] = tokens[r][k].access_token
      /\ Len(plaidCalls[r]) = Len(tokens[r])
      /\ \A k \in Fulfilled(r) : \E j \in 1..Len(responses[r]) : responses[r][j] = DataOf(r, k)

\* Two credentials, the first call failed, the second was issued all the same
\* and succeeded.
C2_Witness ==
  \E r \in Slots :
    /\ Fan(r) /\ Len(tokens[r]) >= 2
    /\ plaidCalls[r][1] = "rejected"
    /\ plaidCalls[r][2] = "fulfilled"
    /\ Len(plaidLog[r]) = Len(tokens[r])

\* C3: a holdings / transactions request has answered, and Promise.all has
\* settled, only if no provider call of the request is pending: while one is,
\* the operation does not respond.
C3_WaitForAll ==
  \A r \in Slots :
    (Fan(r) /\ (pc[r] = "done" \/ all[r] # "pending")) => Pending(r) = {}

\* A request that answered after its calls settled out of issue order, one of
\* them with a failure.
C3_Witness ==
  \E r \in Slots :
    /\ Fan(r) /\ pc[r] = "done" /\ Len(plaidCalls[r]) >= 2
    /\ overtaken[r] /\ Rejected(r) # {} /\ Pending(r) = {}

RECURSIVE IssueOrderMerge(_, _, _)
\* The records of the calls that succeeded among the first k issued, call by
\* call in issue order.
IssueOrderMerge(r, field, k) ==
  IF k = 0 THEN <<>>
  ELSE IssueOrderMerge(r, field, k - 1)
         \o (IF plaidCalls[r][k] = "fulfilled" THEN DataOf(r, k)[field] ELSE <<>>)

\* C4: the merged accounts, holdings and securities of a holdings response
\* are fixed by the credential list and the per-credential outcomes alone: the
\* records of the succeeded calls in issue order, in whatever order the calls
\* completed.
C4_DeterministicMergeOrder ==
  \A r \in Slots :
    (kind[r] = "holdings" /\ pc[r] = "done" /\ res[r].status = 200) =>
      \A field \in Fields : Merged(r, field) = IssueOrderMerge(r, field, Len(tokens[r]))

\* A holdings response merged from two calls that completed out of issue
\* order.
C4_Witness ==
  \E r \in Slots :
    /\ kind[r] = "holdings" /\ pc[r] = "done" /\ res[r].status = 200
    /\ overtaken[r] /\ Cardinality(Fulfilled(r)) >= 2

Count(x, xs) == Cardinality({k \in 1..Len(xs) : xs[k] = x})
Range(xs) == {xs[k] : k \in 1..Len(xs)}

RECURSIVE Sum(_, _)
\* The sum of f[k] over the k of a finite set S.
Sum(f, S) ==
  IF S = {} THEN 0
  ELSE LET k == CHOOSE x \in S : TRUE IN f[k] + Sum(f, S \ {k})

\* C5: each merged collection of a holdings / transactions response holds every
\* record of every succeeded call once per call holding it and nothing of a
\* failed call, duplicates across calls kept: its length is the sum of the
\* lengths of the succeeded calls' collections.
C5_MergeIsConcatenation ==
  \A r \in Slots :
    (Fan(r) /\ pc[r] = "done" /\ res[r].status = 200) =>
      \A field \in Fields :
        /\ Len(Merged(r, field)) =
             Sum([k \in Positions(r) |-> Len(DataOf(r, k)[field])], Fulfilled(r))
        /\ \A x \in Range(Merged(r, field))
                      \cup UNION {Range(DataOf(r, k)[field]) : k \in Positions(r)} :
             Count(x, Merged(r, field)) =
               Sum([k \in Positions(r) |-> Count(x, DataOf(r, k)[field])], Fulfilled(r))

\* Items with 3 and 2 holdings merged into 5, a security of both items kept
\* twice.
C5_Witness ==
  \E r \in Slots :
    /\ kind[r] = "holdings" /\ pc[r] = "done" /\ res[r].status = 200
    /\ res[r].fetched_accounts = 2 /\ res[r].total_connected_accounts = 2
    /\ Len(res[r].holdings) = 5
    /\ \E x \in Range(res[r].securities) : Count(x, res[r].securities) = 2

\* C6: a holdings / transactions request over a non-empty credential list
\* whose provider calls all failed answers ALL_ACCOUNTS_FAILED and nothing
\* else (no merged data); NO_CONNECTED_ACCOUNTS is only ever the answer of a
\* request that issued no call.
C6_TotalFailure ==
  \A r \in Slots :
    (Fan(r) /\ pc[r] = "done") =>
      /\ (Positions(r) # {} /\ Rejected(r) = Positions(r)) =>
           res[r] = ErrorRes(500, "ALL_ACCOUNTS_FAILED")
      /\ res[r].error = "NO_CONNECTED_ACCOUNTS" => plaidLog[r] = <<>>

\* A holdings request answered after both of its calls failed.
C6_Witness ==
  \E r \in Slots :
    /\ kind[r] = "holdings" /\ pc[r] = "done"
    /\ Len(plaidCalls[r]) >= 2 /\ Rejected(r) = Positions(r)
    /\ res[r].error = "ALL_ACCOUNTS_FAILED"

\* C7: a holdings request whose token query returned no row has answered
\* NO_CONNECTED_ACCOUNTS, and no provider call was issued for it.
C7_EmptyCredentials ==
  \A r \in Slots :
    (kind[r] = "holdings" /\ queried[r] /\ tokens[r] = <<>>) =>
      /\ pc[r] = "done"
      /\ res[r] = ErrorRes(404, "NO_CONNECTED_ACCOUNTS")
      /\ plaidLog[r] = <<>>
      /\ plaidCalls[r] = <<>>

\* The token query of a holdings request returned no row (no error).
C7_Witness ==
  \E r \in Slots :
    /\ kind[r] = "holdings" /\ queried[r] /\ tokens[r] = <<>>
    /\ res[r].status = 404

\* C8: the credential store never holds two rows for one (user_id, item_id).
C8_UniquePerUserItem ==
  \A a, b \in user_plaid_tokens :
    (a.user_id = b.user_id /\ a.item_id = b.item_id) => a = b

\* A row whose access token was issued before the upsert that inserted the row
\* got its own: two exchanges of one item were in flight together, and the
\* earlier one wrote last.
C8_Witness ==
  \E row \in user_plaid_tokens : row.access_token.serial < row.id

\* The token query of the holdings request in slot r returns in this step and
\* its provider calls are issued.
HoldingsQueried(r) ==
  /\ kind[r] = "holdings"
  /\ pc[r] = "select"
  /\ pc'[r] = "fanout"

\* C9: the row of (user, item) always holds the access token of the last upsert
\* applied for the pair, and a holdings request whose token query follows that
\* upsert calls the provider for the item with that token and no other.
C9_LastWriterWins ==
  /\ [](/\ \A row \in user_plaid_tokens :
             row.access_token = written[row.user_id, row.item_id]
        /\ \A user_id \in Users, item_id \in Items :
             written[user_id, item_id] # NoToken =>
               Cardinality(Conflicts(user_plaid_tokens, user_id, item_id)) = 1)
  /\ [][\A r \in Slots :
          HoldingsQueried(r) =>
            /\ \A k \in 1..Len(plaidLog'[r]) :
                 plaidLog'[r][k] = written[reqUser[r], tokens'[r][k].item_id]
            /\ \A item_id \in Items :
                 written[reqUser[r], item_id] # NoToken =>
                   Cardinality({k \in 1..Len(plaidLog'[r]) :
                                  plaidLog'[r][k] = written[reqUser[r], item_id]}) = 1]_vars

\* A holdings request has called the provider with the token of a re-link: the
\* row's token is not the one the row was inserted with.
C9_Witness ==
  \E r \in Slots :
    /\ kind[r] = "holdings" /\ pc[r] = "fanout"
    /\ \E k \in 1..Len(plaidLog[r]) :
         \E row \in Conflicts(user_plaid_tokens, reqUser[r], tokens[r][k].item_id) :
           /\ row.id # row.access_token.serial
           /\ plaidLog[r][k] = row.access_token

\* The upsert of the exchange handler in slot r is applied by this step.
UpsertApplied(r) ==
  /\ pc[r] = "upsert"
  /\ pc'[r] = "done"
  /\ written' # written

\* C10: an upsert applied to a (user, item) whose row is inactive leaves the
\* row active.
C10_RelinkReactivates ==
  [][\A r \in Slots :
       (/\ UpsertApplied(r)
        /\ \E row \in Conflicts(user_plaid_tokens, payload[r].user_id, payload[r].item_id) :
             ~row.is_active) =>
         \A row \in Conflicts(user_plaid_tokens', payload[r].user_id, payload[r].item_id) :
           row.is_active]_vars

\* The token query of the holdings / transactions request in slot r returns
\* rows in this step.
TokensListed(r) ==
  /\ Fan(r)
  /\ pc[r] = "select"
  /\ pc'[r] # "select"
  /\ queried'[r]

\* C11: the credentials a holdings / transactions request fans out over are
\* exactly the user's rows with is_active = true at its token query: one
\* provider call per active row, none for an inactive one.
C11_ListActiveFilters ==
  [][\A r \in Slots :
       TokensListed(r) =>
         /\ {tokens'[r][k].item_id : k \in 1..Len(tokens'[r])} =
              {row.item_id : row \in get_user_plaid_tokens(user_plaid_tokens, reqUser[r])}
         /\ Len(plaidLog'[r]) =
              Cardinality(get_user_plaid_tokens(user_plaid_tokens, reqUser[r]))]_vars

\* The rows of the users other than user_id.
RowsOfOthers(table, user_id) == {row \in table : row.user_id # user_id}

\* C13: serving a request authenticated as user u, the token query returns
\* rows of u only, every provider call is made with a token last upserted for
\* u and for no other user, and an upsert leaves the rows of every other user
\* as they were.
C13_NoCrossUserAccess ==
  [][\A r \in Slots :
       /\ TokensListed(r) =>
            /\ \A k \in 1..Len(tokens'[r]) :
                 \E row \in user_plaid_tokens :
                   /\ row.user_id = reqUser[r]
                   /\ row.item_id = tokens'[r][k].item_id
                   /\ row.access_token = tokens'[r][k].access_token
            /\ \A k \in 1..Len(plaidLog'[r]) :
                 /\ \E item_id \in Items : plaidLog'[r][k] = written[reqUser[r], item_id]
                 /\ \A user_id \in Users \ {reqUser[r]}, item_id \in Items :
                      plaidLog'[r][k] # written[user_id, item_id]
       /\ UpsertApplied(r) =>
            /\ payload[r].user_id = reqUser[r]
            /\ RowsOfOthers(user_plaid_tokens', reqUser[r]) =
                 RowsOfOthers(user_plaid_tokens, reqUser[r])
            /\ \A user_id \in Users \ {reqUser[r]}, item_id \in Items :
                 written'[user_id, item_id] = written[user_id, item_id]]_vars

\* Two users have linked the same item; a holdings request of one of them has
\* called the provider while the other's row is in the table, and the other's
\* re-link has been applied since.
C13_Witness ==
  \E r \in Slots :
    /\ kind[r] = "holdings" /\ pc[r] \in {"fanout", "done"}
    /\ Len(plaidLog[r]) = 1
    /\ \E row \in RowsOfOthers(user_plaid_tokens, reqUser[r]) :
         /\ row.item_id = tokens[r][1].item_id
         /\ row.access_token # plaidLog[r][1]
    /\ \E row \in SelectTokens(user_plaid_tokens, reqUser[r]) :
         row.access_token = plaidLog[r][1]

\* The request in slot r was answered by the validators: no token query ran
\* and no provider call was issued for it.
ValidationErrorOnly(r) ==
  /\ pc[r] = "done"
  /\ res[r] = ErrorRes(400, "VALIDATION_ERROR")
  /\ reqUser[r] = NoUser
  /\ ~queried[r]
  /\ tokens[r] = <<>>
  /\ plaidLog[r] = <<>>
  /\ plaidCalls[r] = <<>>

\* C14: a transactions request whose start_date or end_date does not match
\* ^\d{4}-\d{2}-\d{2}$ is answered VALIDATION_ERROR, with no token query and no
\* provider call made for it.
C14_DateValidationFirst ==
  \A r \in Slots :
    (/\ kind[r] = "transactions"
     /\ ~(MatchesDate(body[r].start_date) /\ MatchesDate(body[r].end_date))) =>
      ValidationErrorOnly(r)

\* A transactions request with a well-formed start_date and no end_date was
\* answered 400 while the user has a credential stored.
C14_Witness ==
  \E r \in Slots :
    /\ kind[r] = "transactions"
    /\ body[r].start_date = ValidDate /\ body[r].end_date = <<>>
    /\ res[r].status = 400
    /\ user_plaid_tokens # {}

\* C15: a transactions request with start_date "2024-13-40" is answered
\* VALIDATION_ERROR with no token query made for it.
C15_Month13Day40Rejected ==
  \A r \in Slots :
    (kind[r] = "transactions" /\ body[r].start_date = OddDate) => ValidationErrorOnly(r)

\* The token query of the holdings / transactions request in slot r returned
\* an error: the request was admitted and is answered, and no rows came back.
ReadFailed(r) ==
  /\ Fan(r)
  /\ pc[r] = "done"
  /\ reqUser[r] \in Users
  /\ ~queried[r]

\* C16: a holdings / transactions request whose token query failed is answered
\* with a 5xx status, never NO_CONNECTED_ACCOUNTS.
C16_ReadFailureIsStorageError ==
  \A r \in Slots :
    ReadFailed(r) =>
      /\ res[r].status >= 500
      /\ res[r].error # "NO_CONNECTED_ACCOUNTS"

\* C17: a success response of exchange-public-token implies a row for the
\* request's (user_id, item_id) is in the table (rows are never deleted).
C17_SuccessImpliesStored ==
  \A r \in Slots :
    (kind[r] = "exchange" /\ pc[r] = "done" /\ res[r].status = 200) =>
      Conflicts(user_plaid_tokens, reqUser[r], payload[r].item_id) # {}

\* C20: an upsert applied to a (user, item) that already has a row leaves the
\* row's updated_at and last_used_at both equal to the time of the upsert.
C20_RelinkStampsBothTimes ==
  [][\A r \in Slots :
       (/\ UpsertApplied(r)
        /\ Conflicts(user_plaid_tokens, payload[r].user_id, payload[r].item_id) # {}) =>
         \A row \in Conflicts(user_plaid_tokens', payload[r].user_id, payload[r].item_id) :
           /\ row.updated_at = now
           /\ row.last_used_at = now]_vars

\* itemPublicTokenExchange of the request in slot r settles in this step.
ExchangeSettled(r) ==
  /\ pc[r] = "exchange"
  /\ pc'[r] # "exchange"

\* The row is one the table may gain without an upsert: a row it had, marked
\* inactive.
Deactivated(table, row) == \E old \in table : row = [old EXCEPT !.is_active = FALSE]

\* C18: the table is written only by the upsert of a request whose exchange
\* succeeded, with the access token and item id the provider returned for the
\* request's public token; a request whose exchange fails is answered
\* TOKEN_EXCHANGE_FAILED and leaves the table unchanged, then and later.
C18_ExchangeThenStore ==
  /\ [](\A r \in Slots :
          (kind[r] = "exchange" /\ res[r].error = "TOKEN_EXCHANGE_FAILED") =>
            /\ pc[r] = "done"
            /\ res[r].status = 500
            /\ payload[r] = NoPayload)
  /\ [][/\ \A r \in Slots :
            ExchangeSettled(r) =>
              /\ user_plaid_tokens' = user_plaid_tokens
              /\ \/ /\ pc'[r] = "upsert"
                    /\ nextToken' = nextToken + 1
                    /\ payload'[r].user_id = reqUser[r]
                    /\ payload'[r].item_id = body[r].public_token[1]
                    /\ payload'[r].access_token =
                         [item |-> body[r].public_token[1], serial |-> nextToken]
                 \/ /\ pc'[r] = "done"
                    /\ res'[r] = ErrorRes(500, "TOKEN_EXCHANGE_FAILED")
                    /\ payload'[r] = NoPayload
        /\ \A row \in user_plaid_tokens' \ user_plaid_tokens :
              \/ Deactivated(user_plaid_tokens, row)
              \/ \E r \in Slots :
                   /\ UpsertApplied(r)
                   /\ row.user_id = reqUser[r]
                   /\ row.item_id = payload[r].item_id
                   /\ row.access_token = payload[r].access_token
                   /\ row.access_token.item = body[r].public_token[1]
                   /\ row.access_token.serial \in 1..(nextToken - 1)]_vars

\* An exchange for an item failed and the table has no row for the item, while
\* another exchange's row is stored.
C18_Witness ==
  \E r \in Slots :
    /\ kind[r] = "exchange" /\ pc[r] = "done"
    /\ res[r].error = "TOKEN_EXCHANGE_FAILED"
    /\ Conflicts(user_plaid_tokens, reqUser[r], body[r].public_token[1]) = {}
    /\ user_plaid_tokens # {}

\* An upsert (of either kind) is called in slot r in this step.
StoreCall(r) ==
  /\ pc[r] = "idle"
  /\ kind'[r] \in {"upsert", "store_plaid_token"}

\* C19: an upsert called without a user id, an item id or an access token
\* fails, and creates and modifies no row; no row ever lacks one of the three.
C19_UpsertValidates ==
  /\ [](\A row \in user_plaid_tokens :
          row.user_id \in Users /\ row.item_id \in Items /\ row.access_token # NoToken)
  /\ [][\A r \in Slots :
          (/\ StoreCall(r)
           /\ \/ payload'[r].user_id = NoUser
              \/ payload'[r].item_id = NoItem
              \/ payload'[r].access_token = NoToken) =>
            /\ res'[r].error # ""
            /\ user_plaid_tokens' = user_plaid_tokens]_vars

\* The supabase upsert was called without an access token for a (user, item)
\* that has a row; the call failed and the row is as it was inserted.
C19_Witness ==
  \E r \in Slots :
    /\ kind[r] = "upsert" /\ pc[r] = "done"
    /\ payload[r].access_token = NoToken
    /\ res[r].error = "not_null_violation"
    /\ \E row \in Conflicts(user_plaid_tokens, payload[r].user_id, payload[r].item_id) :
         row.created_at = row.updated_at /\ row.last_used_at = NoTime

\* The request in slot r has caused provider or store activity: its handler is
\* at (or past) an await on the provider or the store.
CoreActivity(r) ==
  \/ pc[r] \in {"link", "exchange", "upsert", "select", "fanout"}
  \/ plaidLog[r] # <<>>
  \/ queried[r]
  \/ payload[r] # NoPayload

\* C12: a request causes provider or store activity only once it is resolved
\* to a verified user, and a request not so resolved is denied.
C12_AuthGatePrecedesCore ==
  \A r \in Slots :
    /\ CoreActivity(r) => reqUser[r] \in Profiles
    /\ (pc[r] = "done" /\ reqUser[r] \notin Profiles) => res[r].status \in {400, 401}

\* The (user_id, item_id) pairs that have a row.
Pairs(table) == {<<row.user_id, row.item_id>> : row \in table}

\* This step is one of the holdings / transactions request in slot r: its
\* intake, its token query, the settling of one of its calls, or its answer.
FanStep(r) ==
  /\ kind'[r] \in {"holdings", "transactions"}
  /\ pc'[r] # pc[r] \/ plaidCalls'[r] # plaidCalls[r]

\* C21: no step removes a (user_id, item_id) pair from the table, and a step of
\* a holdings / transactions request leaves the table as it was.
C21_NeverHardDeletes ==
  [][/\ Pairs(user_plaid_tokens) \subseteq Pairs(user_plaid_tokens')
     /\ \A r \in Slots : FanStep(r) => user_plaid_tokens' = user_plaid_tokens]_vars

\* A holdings request was answered from a credential that has been re-linked
\* and deactivated: the pair is still in the table.
C21_Witness ==
  \E r \in Slots :
    /\ kind[r] = "holdings" /\ pc[r] = "done" /\ res[r].status = 200
    /\ \E row \in Conflicts(user_plaid_tokens, reqUser[r], tokens[r][1].item_id) :
         /\ row.id # row.access_token.serial
         /\ ~row.is_active

LegacyKinds == {"legacy_holdings", "legacy_transactions"}

\* What Promise.all of the secure handlers resolves to for the calls of the
\* legacy request in slot r and their outcomes: each response, or null for a
\* call that failed.
SecureValues(r) ==
  [k \in Positions(r) |->
     WrapCall(plaidCalls[r][k], LegacyData(kind[r], plaidLog[r][k])).value]

\* The answer of the secure handler of the same endpoint to the access tokens
\* and per-token outcomes of the legacy request in slot r.
SecureAnswer(r) ==
  IF kind[r] \in LegacyHoldingsKinds
    THEN HoldingsResponse(plaidLog[r], SecureValues(r))
    ELSE TransactionsResponse(plaidLog[r], SecureValues(r),
           [start_date |-> body[r].start_date, end_date |-> body[r].end_date])

\* The merged collections of a success response.
MergedData(response) ==
  [accounts |-> response.accounts,
   items |-> IF "holdings" \in DOMAIN response THEN response.holdings
             ELSE response.investment_transactions,
   securities |-> response.securities]

\* C22: a legacy holdings / transactions request whose calls have all settled
\* was answered as the secure handler answers the same access tokens and
\* outcomes: the same status and error, and on success the same merged
\* accounts, holdings / transactions and securities.
C22_LegacyAggregatesAsSecure ==
  \A r \in Slots :
    (kind[r] \in LegacyKinds /\ pc[r] = "done" /\ Positions(r) # {} /\ Pending(r) = {}) =>
      /\ res[r].status = SecureAnswer(r).status
      /\ res[r].error = SecureAnswer(r).error
      /\ res[r].status = 200 => MergedData(res[r]) = MergedData(SecureAnswer(r))

\* C24: in every success response of holdings / transactions,
\* 1 <= fetched_accounts <= total_connected_accounts, fetched_accounts is the
\* number of calls that succeeded and total_connected_accounts the number of
\* rows the request's token query returned; that number is the number of the
\* user's rows at the query, and the request keeps the rows it read whatever
\* is upserted while its calls are in flight.
C24_CountsOfTheSnapshot ==
  /\ [](\A r \in Slots :
          (Fan(r) /\ pc[r] = "done" /\ res[r].status = 200) =>
            /\ 1 <= res[r].fetched_accounts
            /\ res[r].fetched_accounts <= res[r].total_connected_accounts
            /\ res[r].fetched_accounts = Cardinality(Fulfilled(r))
            /\ res[r].total_connected_accounts = Len(tokens[r]))
  /\ [][\A r \in Slots :
          /\ TokensListed(r) =>
               Len(tokens'[r]) = Cardinality(SelectTokens(user_plaid_tokens, reqUser[r]))
          /\ (Fan(r) /\ pc[r] = "fanout") => tokens'[r] = tokens[r]]_vars

\* A transactions request read one row and answered with a total of one; the
\* row has been re-linked since, to a token the request did not use.
C24_Witness ==
  \E r \in Slots :
    /\ kind[r] = "transactions" /\ pc[r] = "done" /\ res[r].status = 200
    /\ res[r].total_connected_accounts = 1
    /\ res[r].fetched_accounts = 1
    /\ \E row \in SelectTokens(user_plaid_tokens, reqUser[r]) :
         /\ row.item_id = tokens[r][1].item_id
         /\ row.access_token # tokens[r][1].access_token

\* C25: an upsert applied to a (user, item) that already has a row leaves the
\* row's created_at as it was.
C25_CreatedAtStable ==
  [][\A r \in Slots :
       UpsertApplied(r) =>
         \A old \in Conflicts(user_plaid_tokens, payload[r].user_id, payload[r].item_id) :
           \A row \in Conflicts(user_plaid_tokens', payload[r].user_id, payload[r].item_id) :
             row.created_at = old.created_at]_vars

\* The rows of every other (user_id, item_id) pair.
OtherRows(table, user_id, item_id) == table \ Conflicts(table, user_id, item_id)

\* C26: an upsert that succeeds for (user, item), by the supabase upsert or by
\* store_plaid_token, leaves every row of another (user_id, item_id) pair as
\* it was, the user's rows for other items included.
C26_UpsertFrame ==
  [][\A r \in Slots :
       (StoreCall(r) /\ res'[r].error = "") =>
         OtherRows(user_plaid_tokens', payload'[r].user_id, payload'[r].item_id) =
           OtherRows(user_plaid_tokens, payload'[r].user_id, payload'[r].item_id)]_vars

\* An upsert succeeded for a user who has an older row for another item; that
\* row is active and as it was inserted.
C26_Witness ==
  \E r \in Slots :
    /\ kind[r] \in {"upsert", "store_plaid_token"} /\ pc[r] = "done" /\ res[r].error = ""
    /\ Conflicts(user_plaid_tokens, payload[r].user_id, payload[r].item_id) # {}
    /\ \E row \in OtherRows(user_plaid_tokens, payload[r].user_id, payload[r].item_id) :
         /\ row.user_id = payload[r].user_id
         /\ row.id < payload[r].access_token.serial
         /\ row.is_active
         /\ row.id = row.access_token.serial

\* The body of the request in slot r fails the validators of its route.
InvalidBody(r) ==
  \/ kind[r] = "link" /\ ~validateLinkToken(body[r])
  \/ kind[r] = "exchange" /\ ~validatePublicToken(body[r].public_token)
  \/ kind[r] = "transactions" /\ ~validateDates(body[r])

\* C27: a link-token, exchange or transactions request with an invalid body is
\* answered 400 VALIDATION_ERROR whatever its bearer token is (valid, invalid or
\* missing), and authenticateToken has not run for it: no 401 was sent and
\* req.user was not set.
C27_ValidationBeforeAuth ==
  \A r \in Slots :
    InvalidBody(r) =>
      /\ pc[r] = "done"
      /\ res[r] = ErrorRes(400, "VALIDATION_ERROR")
      /\ reqUser[r] = NoUser

\* Two requests with invalid bodies have been answered 400: one with a bearer
\* token that would have verified, one with a token that would not.
C27_Witness ==
  \E r, q \in Slots :
    /\ InvalidBody(r) /\ authorization[r] \in Profiles /\ res[r].status = 400
    /\ InvalidBody(q) /\ authorization[q] = "garbage" /\ res[q].status = 400
    /\ kind[r] # kind[q]

\* The link-token request in slot r has called the provider.
LinkCalled(r) == kind[r] = "link" /\ plaidLog[r] # <<>>

\* C28: a link-token request calls the provider once, for a link token bound
\* to the user its bearer token authenticated, whatever user_id its body
\* carries: two requests of the same user with the same redirect_uri have
\* issued identical calls, and a link token answered is that user's.
C28_LinkTokenBoundToAuthUser ==
  /\ \A r \in Slots :
       LinkCalled(r) =>
         /\ Len(plaidLog[r]) = 1
         /\ reqUser[r] \in Profiles
         /\ reqUser[r] = authorization[r]
         /\ plaidLog[r][1].client_user_id = reqUser[r]
         /\ (pc[r] = "done" /\ res[r].status = 200) =>
              res[r].link_token.client_user_id = reqUser[r]
  /\ \A r, q \in Slots :
       (/\ LinkCalled(r) /\ LinkCalled(q)
        /\ reqUser[r] = reqUser[q]
        /\ body[r].redirect_uri = body[q].redirect_uri) =>
         plaidLog[r] = plaidLog[q]

\* Two requests of one user are in flight, one naming another user in its
\* body and one naming nobody; both have called the provider for the sender.
C28_Witness ==
  \E r, q \in Slots :
    /\ LinkCalled(r) /\ LinkCalled(q)
    /\ reqUser[r] = reqUser[q]
    /\ body[r].user_id \in {String(u) : u \in Users \ {reqUser[r]}}
    /\ body[q].user_id = Undefined
    /\ plaidLog[r] = plaidLog[q]

\* The requests in slots r and q went to the main and to the alternative path
\* of one endpoint with the same access_tokens, start_date and end_date; both
\* are answered, and every call either made has settled, the calls both made
\* for a token with the same outcome.
SameLegacyInput(r, q) ==
  /\ \/ kind[r] = "legacy_holdings" /\ kind[q] = "legacy_alt_holdings"
     \/ kind[r] = "legacy_transactions" /\ kind[q] = "legacy_alt_transactions"
  /\ body[r].access_tokens.type = body[q].access_tokens.type
  /\ body[r].access_tokens.value = body[q].access_tokens.value
  /\ body[r].start_date = body[q].start_date
  /\ body[r].end_date = body[q].end_date
  /\ pc[r] = "done" /\ pc[q] = "done"
  /\ Pending(r) = {} /\ Pending(q) = {}
  /\ \A k \in Positions(r) \cap Positions(q) : plaidCalls[r][k] = plaidCalls[q][k]

\* C29: requests to the two spellings of a legacy data endpoint with the same
\* input are answered with the same status and error and, on success, the same
\* merged data.
C29_LegacySpellingsAgree ==
  \A r, q \in Slots :
    SameLegacyInput(r, q) =>
      /\ res[r].status = res[q].status
      /\ res[r].error = res[q].error
      /\ res[r].status = 200 => MergedData(res[r]) = MergedData(res[q])

DeprecatedKinds == {"deprecated_create_link_token", "deprecated_exchange_public_token"}

\* A request to a deprecated path is taken up in slot r in this step.
DeprecatedTaken(r) == pc[r] = "idle" /\ kind'[r] \in DeprecatedKinds

====
